---- MODULE Spec2Model ----
(***************************************************************************)
(* gittip.billing: associate() and clear() against the participants table  *)
(* and the Balanced gateway.  Every gateway call and every db.execute is   *)
(* one step of the call that makes it.                                     *)
(***************************************************************************)
EXTENDS Integers, Sequences, FiniteSets, TLC

(* ----------------------------- bounds ---------------------------------- *)

\* account references a caller may pass: AccountUri(1) .. AccountUri(MaxUri)
MaxUri == 2
\* cards the gateway holds, over all accounts
MaxCards == 2

(* ----------------------------- values ---------------------------------- *)

\* Python None / SQL NULL
NULL == "<NULL>"

Procs == {"w1", "w2"}

\* serialized callers run one call at a time, in one slot
Serial == {"w1"}

Participants == {"alice", "bob"}

CardUris == {"/v1/cards/X"}

\* err.message of a balanced.exc.HTTPError
Messages == {"Card declined"}

HTTPError(m) == [type |-> "HTTPError", message |-> m]

ConnectionError == [type |-> "ConnectionError", message |-> ""]

NoResultFound == [type |-> "NoResultFound", message |-> ""]

MultipleResultsFound == [type |-> "MultipleResultsFound", message |-> ""]

TypeError == [type |-> "TypeError", message |-> ""]

NoError == [type |-> NULL, message |-> ""]

\* Python values of card attributes: None, an int, a unicode
None == [t |-> "none", n |-> 0, s |-> ""]

Number(n) == [t |-> "int", n |-> n, s |-> ""]

Str(s) == [t |-> "str", n |-> 0, s |-> s]

\* the card details behind the tokens other clients attach
CardInfos ==
    { [last_four |-> Str("1234"), expiration_month |-> Number(1),
       expiration_year |-> Number(2025)],
      [last_four |-> Str("5678"), expiration_month |-> Number(12),
       expiration_year |-> Number(2030)],
      [last_four |-> None, expiration_month |-> None,
       expiration_year |-> Number(2025)],
      [last_four |-> Str("1234"), expiration_month |-> Number(12),
       expiration_year |-> None],
      [last_four |-> None, expiration_month |-> None,
       expiration_year |-> None] }

\* what a gateway HTTP call can raise
GatewayErrors == {ConnectionError} \cup {HTTPError(m) : m \in Messages}

\* the uri the gateway gives its n-th account
AccountUri(n) == "/v1/accounts/" \o ToString(n)

Refs == {NULL} \cup {AccountUri(n) : n \in 1..MaxUri}

EmailAddress(participant_id) == participant_id \o "@gittip.com"

(* ------------------------------ state ---------------------------------- *)

VARIABLES
    participants,   \* the table: id -> [balanced_account_uri, last_bill_result]
    accounts,       \* the gateway: sequence of accounts, each with its cards
    pc,             \* position of each call
    frame,          \* the locals of each call
    trace,          \* the gateway calls and db writes each call has made
    pre,            \* what each call found when it started
    last            \* the clear that returned last, when no call finished since

vars == <<participants, accounts, pc, frame, trace, pre, last>>

NoCall == [op |-> "none", participant_id |-> NULL, balanced_account_uri |-> NULL]

NoFrame == [op |-> "none", participant_id |-> NULL, balanced_account_uri |-> NULL,
            card_uri |-> NULL, customer |-> 0, last_bill_result |-> NULL,
            out |-> NULL, err |-> NoError, cards |-> <<>>,
            name |-> NULL, month |-> None, year |-> None]

NoPre == [row |-> [balanced_account_uri |-> NULL, last_bill_result |-> NULL],
          cards |-> <<>>]

Init ==
    /\ participants = [id \in Participants |->
                          [balanced_account_uri |-> NULL, last_bill_result |-> NULL]]
    /\ accounts = <<>>
    /\ pc = [p \in Procs |-> "idle"]
    /\ frame = [p \in Procs |-> NoFrame]
    /\ trace = [p \in Procs |-> <<>>]
    /\ pre = [p \in Procs |-> NoPre]
    /\ last = NoCall

(* ----------------------------- gateway --------------------------------- *)

\* Filter on a field that never holds an email address
FilterWrongField(accts, email_address) ==
    {i \in 1..Len(accts) : accts[i].uri = email_address}

\* indices of the accounts a query filter(email_address=...) matches
Filter(accts, email_address) ==
    {i \in 1..Len(accts) : accts[i].email_address = email_address}

\* index of the account a uri refers to, 0 when it does not resolve
Resolve(accts, uri) ==
    IF \E i \in 1..Len(accts) : accts[i].uri = uri
    THEN CHOOSE i \in 1..Len(accts) : accts[i].uri = uri
    ELSE 0

NewAccount(accts, email_address) ==
    [uri |-> AccountUri(Len(accts) + 1), email_address |-> email_address,
     meta |-> NULL, cards |-> <<>>]

NewCard(cards, card_uri) ==
    [uri |-> card_uri, created_at |-> Len(cards) + 1, is_valid |-> TRUE]

RECURSIVE CardCount(_)
CardCount(accts) ==
    IF accts = <<>> THEN 0 ELSE Len(Head(accts).cards) + CardCount(Tail(accts))

CardsAt(accts, uri) ==
    IF Resolve(accts, uri) = 0 THEN <<>> ELSE accts[Resolve(accts, uri)].cards

(* ------------------------------ calls ---------------------------------- *)

\* one gateway call or db write: its name, the card it is about (creation
\* time, 0 when none) and the type of the exception it raised (NULL when none)
Event(name, n, e) == <<name, n, e.type>>

Names(tr) == {tr[k][1] : k \in 1..Len(tr)}

\* where in a trace the events of a name are
At(tr, name) == {k \in 1..Len(tr) : tr[k][1] = name}

Count(tr, name) == Cardinality(At(tr, name))

Log(p, name, n, e) == trace' = [trace EXCEPT ![p] = Append(@, Event(name, n, e))]

Raise(p, e) ==
    /\ pc' = [pc EXCEPT ![p] = "raised"]
    /\ frame' = [frame EXCEPT ![p].err = e]

\* a gateway call raises and nothing on the way up catches it
Fail(p, name, n, e) ==
    /\ Log(p, name, n, e)
    /\ Raise(p, e)

\* a call may start when its slot is free
CanStart(p) == pc[p] = "idle"

Snapshot(participant_id, uri) ==
    [row |-> participants[participant_id], cards |-> CardsAt(accounts, uri)]

(* ---------------------------- associate -------------------------------- *)

\* NeedsCustomer with the given reference ignored
NeedsCustomerAlways(balanced_account_uri) == balanced_account_uri \in Refs

\* line 42
NeedsCustomer(balanced_account_uri) == balanced_account_uri = NULL

\* lines 21-42: typecheck passes for a unicode or None reference
AssociateStart(p, participant_id, balanced_account_uri, card_uri) ==
    /\ CanStart(p)
    /\ frame' = [frame EXCEPT ![p] =
                    [NoFrame EXCEPT !.op = "associate",
                                    !.participant_id = participant_id,
                                    !.balanced_account_uri = balanced_account_uri,
                                    !.card_uri = card_uri]]
    /\ pc' = [pc EXCEPT ![p] = IF NeedsCustomer(balanced_account_uri)
                               THEN "a_query" ELSE "a_find"]
    /\ trace' = [trace EXCEPT ![p] = <<>>]
    /\ pre' = [pre EXCEPT ![p] = Snapshot(participant_id, balanced_account_uri)]
    /\ UNCHANGED <<participants, accounts, last>>

\* AssociateQuery with the reference persisted only for a new account
AssociateQueryFoundUnsaved(p) ==
    /\ pc[p] = "a_query"
    /\ LET found == Filter(accounts, EmailAddress(frame[p].participant_id)) IN
       \/ \E e \in GatewayErrors : Fail(p, "query", 0, e)
       \/ /\ Cardinality(found) > 1
          /\ Fail(p, "query", 0, MultipleResultsFound)
       \/ /\ Cardinality(found) = 1
          /\ Log(p, "query", 0, NoError)
          /\ frame' = [frame EXCEPT ![p].customer = CHOOSE i \in found : TRUE]
          /\ pc' = [pc EXCEPT ![p] = "a_meta_save"]
       \/ /\ found = {}
          /\ Log(p, "query", 0, NoResultFound)
          /\ pc' = [pc EXCEPT ![p] = "a_create"]
          /\ UNCHANGED frame
    /\ UNCHANGED <<participants, accounts, pre, last>>

\* lines 44-47: Account.query.filter(email_address=...).one(); NoResultFound
\* is caught and leads to line 48
AssociateQuery(p) ==
    /\ pc[p] = "a_query"
    /\ LET found == Filter(accounts, EmailAddress(frame[p].participant_id)) IN
       \/ \E e \in GatewayErrors : Fail(p, "query", 0, e)
       \/ /\ Cardinality(found) > 1
          /\ Fail(p, "query", 0, MultipleResultsFound)
       \/ /\ Cardinality(found) = 1
          /\ Log(p, "query", 0, NoError)
          /\ frame' = [frame EXCEPT ![p].customer = CHOOSE i \in found : TRUE]
          /\ pc' = [pc EXCEPT ![p] = "a_exec_customer"]
       \/ /\ found = {}
          /\ Log(p, "query", 0, NoResultFound)
          /\ pc' = [pc EXCEPT ![p] = "a_create"]
          /\ UNCHANGED frame
    /\ UNCHANGED <<participants, accounts, pre, last>>

\* line 48: Account(email_address=email_address).save()
AssociateCreate(p) ==
    /\ pc[p] = "a_create"
    /\ \/ /\ \E e \in GatewayErrors : Fail(p, "create", 0, e)
          /\ UNCHANGED accounts
       \/ /\ Log(p, "create", 0, NoError)
          /\ accounts' = Append(accounts,
                 NewAccount(accounts, EmailAddress(frame[p].participant_id)))
          /\ frame' = [frame EXCEPT ![p].customer = Len(accounts) + 1]
          /\ pc' = [pc EXCEPT ![p] = "a_exec_customer"]
    /\ UNCHANGED <<participants, pre, last>>

\* lines 49-56: UPDATE participants SET balanced_account_uri=%s WHERE id=%s
ExecCustomer(table, uri, participant_id) ==
    [table EXCEPT ![participant_id].balanced_account_uri = uri]

\* line 56
AssociateExecCustomer(p) ==
    /\ pc[p] = "a_exec_customer"
    /\ Log(p, "db_customer", 0, NoError)
    /\ participants' = ExecCustomer(participants, accounts[frame[p].customer].uri,
                                    frame[p].participant_id)
    /\ pc' = [pc EXCEPT ![p] = "a_meta_save"]
    /\ UNCHANGED <<accounts, frame, pre, last>>

\* AssociateMetaSave inside a try statement that passes on any error
AssociateMetaSaveSwallowed(p) ==
    /\ pc[p] = "a_meta_save"
    /\ \/ /\ \E e \in GatewayErrors : Log(p, "meta_save", 0, e)
          /\ UNCHANGED accounts
       \/ /\ Log(p, "meta_save", 0, NoError)
          /\ accounts' = [accounts EXCEPT ![frame[p].customer].meta =
                                                   frame[p].participant_id]
    /\ pc' = [pc EXCEPT ![p] = "a_card_save"]
    /\ UNCHANGED <<participants, frame, pre, last>>

\* lines 57-58: customer.meta['participant_id'] = participant_id; customer.save()
AssociateMetaSave(p) ==
    /\ pc[p] = "a_meta_save"
    /\ \/ /\ \E e \in GatewayErrors : Fail(p, "meta_save", 0, e)
          /\ UNCHANGED accounts
       \/ /\ Log(p, "meta_save", 0, NoError)
          /\ accounts' = [accounts EXCEPT ![frame[p].customer].meta =
                                                   frame[p].participant_id]
          /\ pc' = [pc EXCEPT ![p] = "a_card_save"]
          /\ UNCHANGED frame
    /\ UNCHANGED <<participants, pre, last>>

\* line 60: Account.find(balanced_account_uri)
AssociateFind(p) ==
    /\ pc[p] = "a_find"
    /\ LET i == Resolve(accounts, frame[p].balanced_account_uri) IN
       \/ \E e \in GatewayErrors : Fail(p, "find", 0, e)
       \/ /\ i = 0
          /\ Fail(p, "find", 0, NoResultFound)
       \/ /\ i # 0
          /\ Log(p, "find", 0, NoError)
          /\ frame' = [frame EXCEPT ![p].customer = i]
          /\ pc' = [pc EXCEPT ![p] = "a_card_save"]
    /\ UNCHANGED <<participants, accounts, pre, last>>

\* Caught as a bare except clause
CaughtAny(e) == e.type # NULL

\* line 73: the except clause catches balanced.exc.HTTPError only
Caught(e) == e.type = "HTTPError"

\* Outcome with the message recorded but not returned
OutcomeSilent(e) ==
    IF Caught(e)
    THEN [last_bill_result |-> e.message, out |-> ""]
    ELSE [last_bill_result |-> "", out |-> ""]

\* lines 74-78: the locals after the try statement; e is NoError when the
\* else clause ran
Outcome(e) ==
    IF Caught(e)
    THEN [last_bill_result |-> e.message, out |-> e.message]
    ELSE [last_bill_result |-> "", out |-> ""]

\* lines 70-78: customer.card_uri = card_uri; customer.save()
AssociateCardSave(p) ==
    /\ pc[p] = "a_card_save"
    /\ \/ \E e \in GatewayErrors :
            /\ Log(p, "card_attach", 0, e)
            /\ IF Caught(e)
               THEN /\ frame' = [frame EXCEPT
                                    ![p].err = e,
                                    ![p].last_bill_result = Outcome(e).last_bill_result,
                                    ![p].out = Outcome(e).out]
                    /\ pc' = [pc EXCEPT ![p] = "a_exec_standing"]
               ELSE Raise(p, e)
            /\ UNCHANGED accounts
       \/ /\ CardCount(accounts) < MaxCards
          /\ Log(p, "card_attach", 0, NoError)
          /\ accounts' = [accounts EXCEPT ![frame[p].customer].cards =
                              Append(@, NewCard(@, frame[p].card_uri))]
          /\ frame' = [frame EXCEPT
                          ![p].last_bill_result = Outcome(NoError).last_bill_result,
                          ![p].out = Outcome(NoError).out]
          /\ pc' = [pc EXCEPT ![p] = "a_exec_standing"]
    /\ UNCHANGED <<participants, pre, last>>

\* ExecStanding with the account link dropped when the card was refused
ExecStandingReset(table, last_bill_result, participant_id) ==
    [table EXCEPT ![participant_id] =
        [balanced_account_uri |-> IF last_bill_result = ""
                                  THEN @.balanced_account_uri ELSE NULL,
         last_bill_result |-> last_bill_result]]

\* lines 80-87: UPDATE participants SET last_bill_result=%s WHERE id=%s
ExecStanding(table, last_bill_result, participant_id) ==
    [table EXCEPT ![participant_id].last_bill_result = last_bill_result]

\* AssociateExecStanding with only a good standing recorded
AssociateExecStandingGoodOnly(p) ==
    /\ pc[p] = "a_exec_standing"
    /\ IF frame[p].last_bill_result = ""
       THEN /\ Log(p, "db_standing", 0, NoError)
            /\ participants' = ExecStanding(participants, frame[p].last_bill_result,
                                            frame[p].participant_id)
       ELSE UNCHANGED <<participants, trace>>
    /\ pc' = [pc EXCEPT ![p] = "returned"]
    /\ UNCHANGED <<accounts, frame, pre, last>>

\* line 87
AssociateExecStanding(p) ==
    /\ pc[p] = "a_exec_standing"
    /\ Log(p, "db_standing", 0, NoError)
    /\ participants' = ExecStanding(participants, frame[p].last_bill_result,
                                    frame[p].participant_id)
    /\ pc' = [pc EXCEPT ![p] = "returned"]
    /\ UNCHANGED <<accounts, frame, pre, last>>

(* ------------------------------ clear ---------------------------------- *)

\* line 92: typecheck(participant_id, unicode, balanced_account_uri, unicode)
ClearStart(p, participant_id, balanced_account_uri) ==
    /\ CanStart(p)
    /\ frame' = [frame EXCEPT ![p] =
                    [NoFrame EXCEPT !.op = "clear",
                                    !.participant_id = participant_id,
                                    !.balanced_account_uri = balanced_account_uri,
                                    !.err = IF balanced_account_uri = NULL
                                            THEN TypeError ELSE NoError]]
    /\ pc' = [pc EXCEPT ![p] = IF balanced_account_uri = NULL
                               THEN "raised" ELSE "c_find"]
    /\ trace' = [trace EXCEPT ![p] = <<>>]
    /\ pre' = [pre EXCEPT ![p] = Snapshot(participant_id, balanced_account_uri)]
    /\ UNCHANGED <<participants, accounts, last>>

\* ClearFind with the row reset as soon as the account is found
ClearFindResetFirst(p) ==
    /\ pc[p] = "c_find"
    /\ LET i == Resolve(accounts, frame[p].balanced_account_uri) IN
       \/ /\ \E e \in GatewayErrors : Fail(p, "find", 0, e)
          /\ UNCHANGED participants
       \/ /\ i = 0
          /\ Fail(p, "find", 0, NoResultFound)
          /\ UNCHANGED participants
       \/ /\ i # 0
          /\ trace' = [trace EXCEPT ![p] =
                          @ \o <<Event("find", 0, NoError), Event("db_clear", 0, NoError)>>]
          /\ participants' = [participants EXCEPT ![frame[p].participant_id] =
                 [balanced_account_uri |-> NULL, last_bill_result |-> NULL]]
          /\ frame' = [frame EXCEPT ![p].customer = i]
          /\ pc' = [pc EXCEPT ![p] = "c_cards"]
    /\ UNCHANGED <<accounts, pre, last>>

\* line 97: Account.find(balanced_account_uri)
ClearFind(p) ==
    /\ pc[p] = "c_find"
    /\ LET i == Resolve(accounts, frame[p].balanced_account_uri) IN
       \/ \E e \in GatewayErrors : Fail(p, "find", 0, e)
       \/ /\ i = 0
          /\ Fail(p, "find", 0, NoResultFound)
       \/ /\ i # 0
          /\ Log(p, "find", 0, NoError)
          /\ frame' = [frame EXCEPT ![p].customer = i]
          /\ pc' = [pc EXCEPT ![p] = "c_cards"]
    /\ UNCHANGED <<participants, accounts, pre, last>>

\* the orders in which the gateway may list n cards
Listings(n) ==
    {s \in [1..n -> 1..n] : \A i, j \in 1..n : i # j => s[i] # s[j]}

\* line 98: customer.cards fetches the card collection; the loop walks the
\* fetched copies
ClearCards(p) ==
    /\ pc[p] = "c_cards"
    /\ LET cards == accounts[frame[p].customer].cards IN
       \/ \E e \in GatewayErrors : Fail(p, "list_cards", 0, e)
       \/ /\ Log(p, "list_cards", 0, NoError)
          /\ \E s \in Listings(Len(cards)) :
                frame' = [frame EXCEPT ![p].cards =
                             [k \in 1..Len(cards) |-> cards[s[k]]]]
          /\ pc' = [pc EXCEPT ![p] = "c_loop"]
    /\ UNCHANGED <<participants, accounts, pre, last>>

\* NeedsSave without the test of line 99
NeedsSaveAlways(card) == card.is_valid \/ ~card.is_valid

\* line 99
NeedsSave(card) == card.is_valid

\* Invalidate without the assignment of line 100
InvalidateNot(card) == card

\* line 100
Invalidate(card) == [card EXCEPT !.is_valid = FALSE]

\* line 101: card.save() puts the copy over the gateway's card of that
\* creation time
SaveCard(cards, card) ==
    [k \in 1..Len(cards) |->
        IF cards[k].created_at = card.created_at THEN card ELSE cards[k]]

\* lines 98-101: one iteration of the loop, or its end
ClearLoop(p) ==
    /\ pc[p] = "c_loop"
    /\ IF frame[p].cards = <<>>
       THEN /\ pc' = [pc EXCEPT ![p] = "c_exec"]
            /\ UNCHANGED <<accounts, frame, trace>>
       ELSE LET card == Head(frame[p].cards) IN
            IF NeedsSave(card)
            THEN \/ /\ \E e \in GatewayErrors : Fail(p, "card_save", card.created_at, e)
                    /\ UNCHANGED accounts
                 \/ /\ Log(p, "card_save", card.created_at, NoError)
                    /\ accounts' = [accounts EXCEPT ![frame[p].customer].cards =
                                        SaveCard(@, Invalidate(card))]
                    /\ frame' = [frame EXCEPT ![p].cards = Tail(@)]
                    /\ UNCHANGED pc
            ELSE /\ frame' = [frame EXCEPT ![p].cards = Tail(@)]
                 /\ UNCHANGED <<accounts, pc, trace>>
    /\ UNCHANGED <<participants, pre, last>>

\* ExecClear with last_bill_result left out of the SET list
ExecClearUriOnly(table, participant_id) ==
    [table EXCEPT ![participant_id].balanced_account_uri = NULL]

\* lines 103-111: UPDATE participants SET balanced_account_uri=NULL,
\* last_bill_result=NULL WHERE id=%s
ExecClear(table, participant_id) ==
    [table EXCEPT ![participant_id] =
        [balanced_account_uri |-> NULL, last_bill_result |-> NULL]]

\* line 111
ClearExec(p) ==
    /\ pc[p] = "c_exec"
    /\ Log(p, "db_clear", 0, NoError)
    /\ participants' = ExecClear(participants, frame[p].participant_id)
    /\ pc' = [pc EXCEPT ![p] = "returned"]
    /\ UNCHANGED <<accounts, frame, pre, last>>

(* ------------------------------ Account -------------------------------- *)

\* the account of alice once associate has created it and saved its metadata
ViewAccounts ==
    <<[NewAccount(<<>>, EmailAddress("alice")) EXCEPT !.meta = "alice"]>>

ViewTable ==
    [id \in Participants |->
        [balanced_account_uri |-> IF id = "alice" THEN AccountUri(1) ELSE NULL,
         last_bill_result |-> NULL]]

InitView ==
    /\ participants = ViewTable
    /\ accounts = ViewAccounts
    /\ pc = [p \in Procs |-> "idle"]
    /\ frame = [p \in Procs |-> NoFrame]
    /\ trace = [p \in Procs |-> <<>>]
    /\ pre = [p \in Procs |-> NoPre]
    /\ last = NoCall

\* the card a successful card-attach save adds, with the details of its token
NewCardWith(cards, card_uri, info) ==
    [uri |-> card_uri, created_at |-> NewCard(cards, card_uri).created_at,
     is_valid |-> NewCard(cards, card_uri).is_valid,
     last_four |-> info.last_four,
     expiration_month |-> info.expiration_month,
     expiration_year |-> info.expiration_year]

\* lines 70-72 in another client: a card-attach save succeeds at the gateway
GatewayAttach(i, card_uri, info) ==
    /\ i \in 1..Len(accounts)
    /\ CardCount(accounts) < MaxCards
    /\ accounts' = [accounts EXCEPT ![i].cards =
                        Append(@, NewCardWith(@, card_uri, info))]
    /\ UNCHANGED <<participants, pc, frame, trace, pre, last>>

\* HasAccount with the test of line 126 left out
HasAccountAlways(balanced_account_uri) == balanced_account_uri \in Refs

\* line 126
HasAccount(balanced_account_uri) == balanced_account_uri # NULL

\* lines 123-126: Account(balanced_account_uri)
ViewStart(p, balanced_account_uri) ==
    /\ CanStart(p)
    /\ frame' = [frame EXCEPT ![p] =
                    [NoFrame EXCEPT !.op = "view",
                                    !.balanced_account_uri = balanced_account_uri]]
    /\ pc' = [pc EXCEPT ![p] = IF HasAccount(balanced_account_uri)
                               THEN "v_find" ELSE "v_ready"]
    /\ trace' = [trace EXCEPT ![p] = <<>>]
    /\ UNCHANGED <<participants, accounts, pre, last>>

\* line 127: balanced.Account.find(balanced_account_uri)
ViewFind(p) ==
    /\ pc[p] = "v_find"
    /\ LET i == Resolve(accounts, frame[p].balanced_account_uri) IN
       \/ \E e \in GatewayErrors : Fail(p, "find", 0, e)
       \/ /\ i = 0
          /\ Fail(p, "find", 0, NoResultFound)
       \/ /\ i # 0
          /\ Log(p, "find", 0, NoError)
          /\ frame' = [frame EXCEPT ![p].customer = i]
          /\ pc' = [pc EXCEPT ![p] = "v_ready"]
    /\ UNCHANGED <<participants, accounts, pre, last>>

\* line 138: sorted(cards, key=lambda c: c.created_at), stable
RECURSIVE Sorted(_)
Sorted(cards) ==
    IF cards = <<>> THEN <<>>
    ELSE LET c == cards[Len(cards)]
             rest == Sorted(SubSeq(cards, 1, Len(cards) - 1))
             le == {k \in 1..Len(rest) : rest[k].created_at <= c.created_at}
             at == IF le = {} THEN 0 ELSE CHOOSE k \in le : \A j \in le : j <= k
         IN SubSeq(rest, 1, at) \o <<c>> \o SubSeq(rest, at + 1, Len(rest))

\* Reverse without the call of line 139
ReverseNot(cards) == cards

\* line 139: cards.reverse()
Reverse(cards) == [k \in 1..Len(cards) |-> cards[Len(cards) + 1 - k]]

\* line 141: getattr(card, name, "")
Attr(card, name) == IF name \in DOMAIN card THEN card[name] ELSE Str("")

\* lines 138-140: the card _get reads, for a listing that is not empty
Latest(listing) == Reverse(Sorted(listing))[1]

\* lines 132-146: _get(name), given the cards as the gateway listed them;
\* the IndexError of an empty listing is caught and leaves out = ""
Get(customer, listing, name) ==
    IF customer = 0 \/ listing = <<>>
    THEN Str("")
    ELSE IF Attr(Latest(listing), name) = None
         THEN Str("")
         ELSE Attr(Latest(listing), name)

\* the creation time of the card _get reads, 0 when there is none
Read(listing) == IF listing = <<>> THEN 0 ELSE Latest(listing).created_at

\* truth value of a Python value
Truthy(v) == (v.t = "int" /\ v.n # 0) \/ (v.t = "str" /\ v.s # "")

\* IdOf taken from the newest card's account
IdOfCarded(accts, customer) ==
    IF customer # 0 /\ accts[customer].cards # <<>>
    THEN accts[customer].uri ELSE NULL

\* line 152
IdOf(accts, customer) == IF customer # 0 THEN accts[customer].uri ELSE NULL

\* lines 154-156
LastFour(v) == IF Truthy(v) THEN "************" \o v.s ELSE v.s

\* BothSet with or for and
EitherSet(month, year) == Truthy(month) \/ Truthy(year)

\* line 161
BothSet(month, year) == Truthy(month) /\ Truthy(year)

\* line 162: "%d/%d" % (month, year) takes numbers only
Formats(month, year) == month.t = "int" /\ year.t = "int"

Expiry(month, year) == ToString(month.n) \o "/" \o ToString(year.n)

\* lines 148-153, 157: __getitem__(name) up to its first _get
ViewGetItem(p, name) ==
    /\ pc[p] = "v_ready"
    /\ frame' = [frame EXCEPT ![p].name = name,
                              ![p].out = IF name = "id"
                                         THEN IdOf(accounts, frame[p].customer)
                                         ELSE NULL]
    /\ pc' = [pc EXCEPT ![p] = CASE name = "id" -> "v_got"
                                 [] name = "last4" -> "v_last_four"
                                 [] name = "expiry" -> "v_month"]
    /\ UNCHANGED <<participants, accounts, trace, pre, last>>

\* the orders in which the gateway may list the cards
Listed(cards) ==
    {[k \in 1..Len(cards) |-> cards[s[k]]] : s \in Listings(Len(cards))}

\* the cards of the account a view holds
CardsOf(p) ==
    IF frame[p].customer = 0 THEN <<>> ELSE accounts[frame[p].customer].cards

\* line 137: self._account.cards reads the card collection
Fetch(p, listing) ==
    /\ frame[p].customer # 0
    /\ listing \in Listed(CardsOf(p))
    /\ Log(p, "cards", Read(listing), NoError)

FetchFails(p) ==
    /\ frame[p].customer # 0
    /\ \E e \in GatewayErrors : Fail(p, "cards", 0, e)

\* lines 154-156: out = self._get('last_four'), masked
ViewLastFour(p) ==
    /\ pc[p] = "v_last_four"
    /\ \/ FetchFails(p)
       \/ /\ frame[p].customer = 0
          /\ frame' = [frame EXCEPT
                          ![p].out = LastFour(Get(0, <<>>, "last_four"))]
          /\ pc' = [pc EXCEPT ![p] = "v_got"]
          /\ UNCHANGED trace
       \/ \E listing \in Listed(CardsOf(p)) :
            /\ Fetch(p, listing)
            /\ frame' = [frame EXCEPT
                            ![p].cards = listing,
                            ![p].out = LastFour(Get(frame[p].customer, listing,
                                                    "last_four"))]
            /\ pc' = [pc EXCEPT ![p] = "v_got"]
    /\ UNCHANGED <<participants, accounts, pre, last>>

\* line 158: month = self._get('expiration_month')
ViewMonth(p) ==
    /\ pc[p] = "v_month"
    /\ \/ FetchFails(p)
       \/ /\ frame[p].customer = 0
          /\ frame' = [frame EXCEPT
                          ![p].month = Get(0, <<>>, "expiration_month")]
          /\ pc' = [pc EXCEPT ![p] = "v_year"]
          /\ UNCHANGED trace
       \/ \E listing \in Listed(CardsOf(p)) :
            /\ Fetch(p, listing)
            /\ frame' = [frame EXCEPT
                            ![p].cards = listing,
                            ![p].month = Get(frame[p].customer, listing,
                                             "expiration_month")]
            /\ pc' = [pc EXCEPT ![p] = "v_year"]
    /\ UNCHANGED <<participants, accounts, pre, last>>

\* lines 161-164, given the listing and the value of line 159
Expires(p, listing, year) ==
    IF BothSet(frame[p].month, year)
    THEN IF Formats(frame[p].month, year)
         THEN /\ frame' = [frame EXCEPT ![p].cards = listing,
                                        ![p].year = year,
                                        ![p].out = Expiry(frame[p].month, year)]
              /\ pc' = [pc EXCEPT ![p] = "v_got"]
         ELSE /\ frame' = [frame EXCEPT ![p].cards = listing,
                                        ![p].year = year,
                                        ![p].err = TypeError]
              /\ pc' = [pc EXCEPT ![p] = "raised"]
    ELSE /\ frame' = [frame EXCEPT ![p].cards = listing,
                                   ![p].year = year,
                                   ![p].out = ""]
         /\ pc' = [pc EXCEPT ![p] = "v_got"]

\* lines 159-164: year = self._get('expiration_year') and the formatting
ViewYear(p) ==
    /\ pc[p] = "v_year"
    /\ \/ FetchFails(p)
       \/ /\ frame[p].customer = 0
          /\ Expires(p, <<>>, Get(0, <<>>, "expiration_year"))
          /\ UNCHANGED trace
       \/ \E listing \in Listed(CardsOf(p)) :
            /\ Fetch(p, listing)
            /\ Expires(p, listing, Get(frame[p].customer, listing,
                                            "expiration_year"))
    /\ UNCHANGED <<participants, accounts, pre, last>>

\* line 167: __getitem__ returns and the Account can be read again; the
\* trace keeps the call of the constructor
ViewReturn(p) ==
    /\ pc[p] = "v_got"
    /\ pc' = [pc EXCEPT ![p] = "v_ready"]
    /\ frame' = [frame EXCEPT ![p].name = NULL, ![p].out = NULL,
                              ![p].month = None, ![p].year = None,
                              ![p].cards = <<>>]
    /\ trace' = [trace EXCEPT ![p] = SubSeq(@, 1, Count(@, "find"))]
    /\ UNCHANGED <<participants, accounts, pre, last>>

\* the caller lets go of the Account
ViewDrop(p) ==
    /\ pc[p] = "v_ready"
    /\ pc' = [pc EXCEPT ![p] = "idle"]
    /\ frame' = [frame EXCEPT ![p] = NoFrame]
    /\ trace' = [trace EXCEPT ![p] = <<>>]
    /\ UNCHANGED <<participants, accounts, pre, last>>

(* ------------------------- back in the caller -------------------------- *)

Finished(p) ==
    IF frame[p].op = "clear"
    THEN [op |-> "clear", participant_id |-> frame[p].participant_id,
          balanced_account_uri |-> frame[p].balanced_account_uri]
    ELSE NoCall

\* line 88 / the end of clear: the call returns
Return(p) ==
    /\ pc[p] = "returned"
    /\ pc' = [pc EXCEPT ![p] = "idle"]
    /\ frame' = [frame EXCEPT ![p] = NoFrame]
    /\ trace' = [trace EXCEPT ![p] = <<>>]
    /\ pre' = [pre EXCEPT ![p] = NoPre]
    /\ last' = Finished(p)
    /\ UNCHANGED <<participants, accounts>>

\* an exception no handler of this module catches reaches the caller
Propagate(p) ==
    /\ pc[p] = "raised"
    /\ pc' = [pc EXCEPT ![p] = "idle"]
    /\ frame' = [frame EXCEPT ![p] = NoFrame]
    /\ trace' = [trace EXCEPT ![p] = <<>>]
    /\ pre' = [pre EXCEPT ![p] = NoPre]
    /\ last' = NoCall
    /\ UNCHANGED <<participants, accounts>>

(* ------------------------------ claims --------------------------------- *)

InCall(p, op) == pc[p] # "idle" /\ frame[p].op = op

\* the row of the participant a call is for
Row(p) == participants[frame[p].participant_id]

\* the card-attach save of an associate call raised the structured HTTP
\* error and the call has returned
CardRefused(p) ==
    /\ InCall(p, "associate")
    /\ pc[p] = "returned"
    /\ \E k \in At(trace[p], "card_attach") : trace[p][k][3] = "HTTPError"

\* C1 as stated: after an associate call that ended with a card failure the
\* stored balanced_account_uri equals its value before the call, whatever
\* that value was, NULL included.
C1_RefAsBeforeCall ==
    \A p \in Procs :
        CardRefused(p) =>
            Row(p).balanced_account_uri = pre[p].row.balanced_account_uri

\* C1 amended: after an associate call that ended with a card failure the
\* stored balanced_account_uri equals its value before the call when the call
\* was given a non-NULL reference, and is the uri of the account the call
\* found or created, never NULL, when the call was given NULL.
C1_RefKeptOrLinked ==
    \A p \in Procs :
        CardRefused(p) =>
            IF frame[p].balanced_account_uri # NULL
            THEN Row(p).balanced_account_uri = pre[p].row.balanced_account_uri
            ELSE /\ Row(p).balanced_account_uri = accounts[frame[p].customer].uri
                 /\ Row(p).balanced_account_uri # NULL

C1_Witness ==
    \E p \in Procs :
        /\ CardRefused(p)
        /\ frame[p].balanced_account_uri # NULL
        /\ pre[p].row.balanced_account_uri # NULL
        /\ pre[p].row.last_bill_result = ""

\* C2: with serialized calls that are each given the stored reference, no
\* row ever has last_bill_result non-NULL while balanced_account_uri is NULL.
C2_NoResultWithoutAccount ==
    \A id \in Participants :
        participants[id].last_bill_result # NULL =>
            participants[id].balanced_account_uri # NULL

\* a refused card recorded on a row that was cleared before
C2_Witness ==
    \E p \in Procs :
        /\ CardRefused(p)
        /\ Row(p).last_bill_result \in Messages
        /\ \E k \in 1..Len(accounts) :
              /\ accounts[k].uri = Row(p).balanced_account_uri
              /\ \E c \in 1..Len(accounts[k].cards) : ~accounts[k].cards[c].is_valid

\* C3: an associate call given a NULL reference never writes
\* balanced_account_uri twice, and once it attempts the card-attach save it
\* has written it exactly once, before that attempt, whether the account was
\* found by email address or created.
C3_OneRefWriteBeforeAttach ==
    \A p \in Procs :
        (InCall(p, "associate") /\ frame[p].balanced_account_uri = NULL) =>
            /\ Count(trace[p], "db_customer") <= 1
            /\ (pc[p] \in {"a_card_save", "a_exec_standing", "returned"}
                \/ "card_attach" \in Names(trace[p])) =>
                   /\ Count(trace[p], "db_customer") = 1
                   /\ \A w \in At(trace[p], "db_customer"),
                         a \in At(trace[p], "card_attach") : w < a
                   /\ \/ "create" \in Names(trace[p])
                      \/ <<"query", 0, NULL>> \in {trace[p][k] : k \in 1..Len(trace[p])}

\* the account was found by its email address and the card-attach was made
C3_Witness ==
    \E p \in Procs :
        /\ InCall(p, "associate")
        /\ frame[p].balanced_account_uri = NULL
        /\ "card_attach" \in Names(trace[p])
        /\ "create" \notin Names(trace[p])
        /\ Count(trace[p], "db_customer") = 1

\* C4: associate returns the value it stored in last_bill_result: '' exactly
\* when the card-attach save succeeded, and otherwise the message of the
\* HTTPError that save raised.
C4_ReturnsWhatItStores ==
    \A p \in Procs :
        (InCall(p, "associate") /\ pc[p] = "returned") =>
            /\ frame[p].out = Row(p).last_bill_result
            /\ frame[p].out = "" <=>
                   <<"card_attach", 0, NULL>> \in
                       {trace[p][k] : k \in 1..Len(trace[p])}
            /\ frame[p].out # "" =>
                   /\ frame[p].err.type = "HTTPError"
                   /\ frame[p].out = frame[p].err.message
                   /\ frame[p].out \in Messages

C4_Witness ==
    \E p \in Procs :
        /\ InCall(p, "associate")
        /\ pc[p] = "returned"
        /\ frame[p].out \in Messages
        /\ pre[p].row.last_bill_result = ""

\* the card-attach save of a call has resolved: it succeeded or raised the
\* structured HTTP error
AttachResolved(p) ==
    \E k \in At(trace[p], "card_attach") : trace[p][k][3] \in {NULL, "HTTPError"}

\* C5: an associate call whose card-attach save resolved writes
\* last_bill_result exactly once by the time it returns, never before the
\* card-attach save, and it does return.
C5_OneResultWriteAfterAttach ==
    \A p \in Procs :
        InCall(p, "associate") =>
            /\ Count(trace[p], "db_standing") <= 1
            /\ \A w \in At(trace[p], "db_standing") :
                  \E a \in At(trace[p], "card_attach") :
                     a < w /\ trace[p][a][3] \in {NULL, "HTTPError"}
            /\ AttachResolved(p) =>
                  /\ pc[p] \in {"a_exec_standing", "returned"}
                  /\ pc[p] = "returned" => Count(trace[p], "db_standing") = 1
            /\ pc[p] = "returned" => AttachResolved(p)

C5_Witness ==
    \E p \in Procs :
        /\ InCall(p, "associate")
        /\ pc[p] = "returned"
        /\ AttachResolved(p)
        /\ Count(trace[p], "db_standing") = 1
        /\ frame[p].last_bill_result \in Messages

\* the k-th event of a trace is a gateway call that failed with an error
\* other than the structured HTTP error; the NoResultFound of the query by
\* email address is the expected absence, not a failure
Fatal(tr, k) ==
    /\ tr[k][3] \notin {NULL, "HTTPError"}
    /\ ~(tr[k][1] = "query" /\ tr[k][3] = "NoResultFound")

DbWrites == {"db_customer", "db_standing", "db_clear"}

\* C6 as stated: an associate call in which a gateway call failed with a
\* fatal error has aborted with that error and has made no store write.
C6_FatalNoStoreWrite ==
    \A p \in Procs :
        InCall(p, "associate") =>
            \A k \in 1..Len(trace[p]) :
                Fatal(trace[p], k) =>
                    /\ pc[p] = "raised"
                    /\ frame[p].err.type = trace[p][k][3]
                    /\ Names(trace[p]) \cap DbWrites = {}

\* C6 amended: an associate call in which a gateway call failed with a fatal
\* error has aborted with that error, has made no store write after the
\* failing call and none of last_bill_result; given a non-NULL reference it
\* has written nothing, given NULL it has written balanced_account_uri (once)
\* exactly when the failing call is the metadata save or the card-attach save.
C6_FatalNoLaterWrite ==
    \A p \in Procs :
        InCall(p, "associate") =>
            \A k \in 1..Len(trace[p]) :
                Fatal(trace[p], k) =>
                    /\ pc[p] = "raised"
                    /\ frame[p].err.type = trace[p][k][3]
                    /\ k = Len(trace[p])
                    /\ Names(trace[p]) \cap DbWrites \subseteq {"db_customer"}
                    /\ Row(p).last_bill_result = pre[p].row.last_bill_result
                    /\ Count(trace[p], "db_customer") =
                          IF /\ frame[p].balanced_account_uri = NULL
                             /\ trace[p][k][1] \in {"meta_save", "card_attach"}
                          THEN 1 ELSE 0
                    /\ Count(trace[p], "db_customer") = 0 => Row(p) = pre[p].row

C6_Witness ==
    \E p \in Procs :
        /\ InCall(p, "associate")
        /\ pc[p] = "raised"
        /\ frame[p].balanced_account_uri = NULL
        /\ trace[p][Len(trace[p])] = <<"card_attach", 0, "ConnectionError">>
        /\ "db_customer" \in Names(trace[p])
        /\ pre[p].row.balanced_account_uri = NULL

\* C7: clear writes the row at most once, only after a card save has been
\* made for every card that was valid, and until that write, in particular
\* when the call aborts at the account lookup, the card listing or a card
\* save, the row is as it was before the call.
C7_ResetAfterInvalidation ==
    \A p \in Procs :
        InCall(p, "clear") =>
            /\ Count(trace[p], "db_clear") <= 1
            /\ \A w \in At(trace[p], "db_clear") :
                  \A c \in 1..Len(pre[p].cards) :
                     pre[p].cards[c].is_valid =>
                        \E k \in 1..(w - 1) :
                           /\ trace[p][k][1] = "card_save"
                           /\ trace[p][k][2] = pre[p].cards[c].created_at
            /\ pc[p] = "raised" => "db_clear" \notin Names(trace[p])
            /\ "db_clear" \notin Names(trace[p]) => Row(p) = pre[p].row
            /\ "db_clear" \in Names(trace[p]) =>
                  /\ pc[p] = "returned"
                  /\ Row(p) = [balanced_account_uri |-> NULL,
                               last_bill_result |-> NULL]

\* clear aborted at its second card save, the first card already invalidated
C7_Witness ==
    \E p \in Procs :
        /\ InCall(p, "clear")
        /\ pc[p] = "raised"
        /\ \E k \in At(trace[p], "card_save") : trace[p][k][3] = NULL
        /\ \E k \in At(trace[p], "card_save") : trace[p][k][3] # NULL
        /\ Row(p).balanced_account_uri = frame[p].balanced_account_uri

\* C8: a clear call that has returned made exactly one card save for each
\* card that was valid when it started and none for the others, and the
\* account's cards are then the cards it had, each with is_valid False and
\* nothing else changed.
C8_EachValidCardSavedOnce ==
    \A p \in Procs :
        (InCall(p, "clear") /\ pc[p] = "returned") =>
            LET now == CardsAt(accounts, frame[p].balanced_account_uri) IN
            /\ Len(now) = Len(pre[p].cards)
            /\ \A c \in 1..Len(pre[p].cards) :
                  /\ ~now[c].is_valid
                  /\ now[c] = [pre[p].cards[c] EXCEPT !.is_valid = FALSE]
                  /\ Cardinality({k \in At(trace[p], "card_save") :
                                     trace[p][k][2] = pre[p].cards[c].created_at})
                        = IF pre[p].cards[c].is_valid THEN 1 ELSE 0
            /\ Count(trace[p], "card_save") =
                  Cardinality({c \in 1..Len(pre[p].cards) : pre[p].cards[c].is_valid})

\* the account had one invalid and one valid card
C8_Witness ==
    \E p \in Procs :
        /\ InCall(p, "clear")
        /\ pc[p] = "returned"
        /\ \E c \in 1..Len(pre[p].cards) : pre[p].cards[c].is_valid
        /\ \E c \in 1..Len(pre[p].cards) : ~pre[p].cards[c].is_valid

\* a clear call that directly follows a clear call that returned, for the
\* same participant, given the same reference or the now stored NULL
SecondClear(p) ==
    /\ InCall(p, "clear")
    /\ last.op = "clear"
    /\ last.participant_id = frame[p].participant_id
    /\ frame[p].balanced_account_uri \in {last.balanced_account_uri, NULL}

\* C9: the second of two clear calls in a row for a participant makes no
\* card save and leaves both fields of the row NULL, as the first left them.
C9_SecondClearIsNoOp ==
    \A p \in Procs :
        SecondClear(p) =>
            /\ "card_save" \notin Names(trace[p])
            /\ pre[p].row = [balanced_account_uri |-> NULL, last_bill_result |-> NULL]
            /\ Row(p) = pre[p].row

\* the second clear returned, for an account that has cards
C9_Witness ==
    \E p \in Procs :
        /\ SecondClear(p)
        /\ pc[p] = "returned"
        /\ frame[p].balanced_account_uri = last.balanced_account_uri
        /\ pre[p].cards # <<>>

\* C10: an associate call given a non-NULL reference makes no query by email
\* address, creates no account, never writes balanced_account_uri; when the
\* lookup of the reference fails, the call has aborted with the lookup's
\* error, without a card-attach save and without any store write.
C10_GivenRefNoResolveNoWrite ==
    \A p \in Procs :
        (InCall(p, "associate") /\ frame[p].balanced_account_uri # NULL) =>
            /\ Names(trace[p]) \cap {"query", "create", "meta_save", "db_customer"} = {}
            /\ Row(p).balanced_account_uri = pre[p].row.balanced_account_uri
            /\ Len(trace[p]) >= 1 => trace[p][1][1] = "find"
            /\ \A k \in At(trace[p], "find") :
                  trace[p][k][3] # NULL =>
                     /\ pc[p] = "raised"
                     /\ frame[p].err.type = trace[p][k][3]
                     /\ Len(trace[p]) = 1
                     /\ Row(p) = pre[p].row
            /\ (Resolve(accounts, frame[p].balanced_account_uri) = 0 /\ pc[p] # "a_find") =>
                  /\ pc[p] = "raised"
                  /\ Len(trace[p]) = 1
                  /\ trace[p][1][3] # NULL

\* the given reference did not resolve
C10_Witness ==
    \E p \in Procs :
        /\ InCall(p, "associate")
        /\ pc[p] = "raised"
        /\ frame[p].err = NoResultFound
        /\ trace[p] = <<Event("find", 0, NoResultFound)>>
        /\ pre[p].row.balanced_account_uri # NULL

Events(tr) == {tr[k] : k \in 1..Len(tr)}

\* C11: with serialized calls the gateway never holds two accounts with one
\* participant's email address: associate creates an account only after its
\* query by email address found none, and otherwise goes on with the account
\* the query found.
C11_OneAccountPerParticipant ==
    /\ \A id \in Participants :
          Cardinality(Filter(accounts, EmailAddress(id))) <= 1
    /\ \A p \in Procs :
          InCall(p, "associate") =>
             /\ "create" \in Names(trace[p]) =>
                   /\ frame[p].balanced_account_uri = NULL
                   /\ trace[p][1] = <<"query", 0, "NoResultFound">>
             /\ <<"query", 0, NULL>> \in Events(trace[p]) =>
                   "create" \notin Names(trace[p])
             /\ (frame[p].balanced_account_uri = NULL /\ frame[p].customer # 0) =>
                   Filter(accounts, EmailAddress(frame[p].participant_id))
                      = {frame[p].customer}

\* both participants have an account and one of them is found again
C11_Witness ==
    \E p \in Procs :
        /\ InCall(p, "associate")
        /\ <<"query", 0, NULL>> \in Events(trace[p])
        /\ pc[p] = "returned"
        /\ Len(accounts) = Cardinality(Participants)
        /\ pre[p].row.balanced_account_uri = NULL

\* the metadata save of an associate call failed
MetaSaveFailed(p) ==
    /\ InCall(p, "associate")
    /\ \E k \in At(trace[p], "meta_save") : trace[p][k][3] # NULL

\* C18: when the metadata save that follows the balanced_account_uri write
\* fails, the call has aborted with balanced_account_uri holding the uri of
\* its account, last_bill_result as before the call and no card-attach save
\* made.
C18_MetaSaveFailureKeepsLink ==
    \A p \in Procs :
        MetaSaveFailed(p) =>
            /\ pc[p] = "raised"
            /\ frame[p].err \in GatewayErrors
            /\ trace[p][Len(trace[p])][1] = "meta_save"
            /\ trace[p][Len(trace[p]) - 1] = <<"db_customer", 0, NULL>>
            /\ Row(p).balanced_account_uri = accounts[frame[p].customer].uri
            /\ Row(p).last_bill_result = pre[p].row.last_bill_result
            /\ Names(trace[p]) \cap {"card_attach", "db_standing"} = {}

\* the account was just created
C18_Witness ==
    \E p \in Procs :
        /\ MetaSaveFailed(p)
        /\ "create" \in Names(trace[p])
        /\ pre[p].row.balanced_account_uri = NULL
        /\ Row(p).balanced_account_uri # NULL

\* an associate call given NULL that directly follows a clear call that
\* returned, for the same participant
AssociateAfterClear(p) ==
    /\ InCall(p, "associate")
    /\ frame[p].balanced_account_uri = NULL
    /\ last.op = "clear"
    /\ last.participant_id = frame[p].participant_id

\* C20: when each call is given the stored reference, an associate call that
\* follows a clear call that returned finds the cleared account again by its
\* email address, creates none, writes that account's uri back to the row,
\* and every card of the account but the one it attaches stays invalid.
C20_ClearedAccountFoundAgain ==
    \A p \in Procs :
        AssociateAfterClear(p) =>
            LET cards == CardsAt(accounts, last.balanced_account_uri)
                old == Len(cards) -
                          IF <<"card_attach", 0, NULL>> \in Events(trace[p])
                          THEN 1 ELSE 0
            IN
            /\ "create" \notin Names(trace[p])
            /\ Filter(accounts, EmailAddress(frame[p].participant_id))
                  = {Resolve(accounts, last.balanced_account_uri)}
            /\ frame[p].customer # 0 =>
                  accounts[frame[p].customer].uri = last.balanced_account_uri
            /\ Row(p).balanced_account_uri =
                  IF "db_customer" \in Names(trace[p])
                  THEN last.balanced_account_uri ELSE NULL
            /\ pc[p] \in {"a_meta_save", "a_card_save", "a_exec_standing", "returned"}
                  => "db_customer" \in Names(trace[p])
            /\ \A c \in 1..old : ~cards[c].is_valid

\* the call returned with a new card next to an invalidated one
C20_Witness ==
    \E p \in Procs :
        /\ AssociateAfterClear(p)
        /\ pc[p] = "returned"
        /\ Row(p).balanced_account_uri = last.balanced_account_uri
        /\ Len(CardsAt(accounts, last.balanced_account_uri)) >= 2
        /\ <<"card_attach", 0, NULL>> \in Events(trace[p])

\* a view has the value of a field in hand
Got(p, name) == InCall(p, "view") /\ pc[p] = "v_got" /\ frame[p].name = name

\* the card of the greatest creation time
Newest(cards) ==
    CHOOSE c \in {cards[k] : k \in 1..Len(cards)} :
        \A k \in 1..Len(cards) : cards[k].created_at <= c.created_at

\* an attribute is there and not empty
Present(v) == v # None /\ v # Str("")

Shown(v) == IF v = None THEN Str("") ELSE v

\* C12: for an account that has cards, last4 and the month and year of
\* expiry are read from the card of the greatest creation time, in whatever
\* order the gateway listed the cards.
C12_NewestCardShown ==
    \A p \in Procs :
        (InCall(p, "view") /\ CardsOf(p) # <<>>) =>
            /\ Got(p, "last4") =>
                  /\ frame[p].cards \in Listed(CardsOf(p))
                  /\ frame[p].out =
                        IF Present(Newest(CardsOf(p)).last_four)
                        THEN "************" \o Newest(CardsOf(p)).last_four.s
                        ELSE ""
            /\ pc[p] = "v_year" =>
                  frame[p].month = Shown(Newest(CardsOf(p)).expiration_month)
            /\ Got(p, "expiry") =>
                  /\ frame[p].cards \in Listed(CardsOf(p))
                  /\ frame[p].month = Shown(Newest(CardsOf(p)).expiration_month)
                  /\ frame[p].year = Shown(Newest(CardsOf(p)).expiration_year)

\* the gateway listed the older card first and the cards differ
C12_Witness ==
    \E p \in Procs :
        /\ Got(p, "last4")
        /\ Len(frame[p].cards) = 2
        /\ frame[p].cards[1].created_at < frame[p].cards[2].created_at
        /\ frame[p].cards[1].last_four = Str("1234")
        /\ frame[p].out = "************5678"

\* C13: a view built with a NULL reference makes no gateway call, raises
\* nothing, leaves the table alone and gives id None, last4 '' and expiry ''.
C13_NullReferenceIsEmpty ==
    \A p \in Procs :
        (InCall(p, "view") /\ frame[p].balanced_account_uri = NULL) =>
            /\ trace[p] = <<>>
            /\ pc[p] \in {"v_ready", "v_got", "v_last_four", "v_month", "v_year"}
            /\ frame[p].customer = 0
            /\ participants = ViewTable
            /\ Got(p, "id") => frame[p].out = NULL
            /\ Got(p, "last4") => frame[p].out = ""
            /\ Got(p, "expiry") => frame[p].out = ""

C13_Witness ==
    \E p \in Procs :
        /\ Got(p, "expiry")
        /\ frame[p].balanced_account_uri = NULL
        /\ frame[p].out = ""
        /\ CardCount(accounts) > 0

\* C14: expiry is "<month>/<year>" exactly when the expiration month and year
\* of the newest card are both there and not empty, and '' in every other
\* case; the formatting never fails on a missing part.
C14_ExpiryWholeOrEmpty ==
    \A p \in Procs :
        InCall(p, "view") =>
            /\ Got(p, "expiry") =>
                  frame[p].out =
                     IF /\ CardsOf(p) # <<>>
                        /\ Present(Newest(CardsOf(p)).expiration_month)
                        /\ Present(Newest(CardsOf(p)).expiration_year)
                     THEN ToString(Newest(CardsOf(p)).expiration_month.n) \o "/"
                             \o ToString(Newest(CardsOf(p)).expiration_year.n)
                     ELSE ""
            /\ pc[p] = "raised" => frame[p].err # TypeError

\* month None, year 2025
C14_Witness ==
    \E p \in Procs :
        /\ Got(p, "expiry")
        /\ CardsOf(p) # <<>>
        /\ Newest(CardsOf(p)).expiration_month = None
        /\ Newest(CardsOf(p)).expiration_year = Number(2025)
        /\ frame[p].out = ""

\* C15: for an account that resolves and has no cards, id is the account's
\* uri, last4 and expiry are '', and nothing is raised but the error of a
\* gateway call.
C15_CardlessAccountKeepsId ==
    \A p \in Procs :
        (InCall(p, "view") /\ frame[p].customer # 0 /\ CardsOf(p) = <<>>) =>
            /\ Got(p, "id") =>
                  /\ frame[p].out = accounts[frame[p].customer].uri
                  /\ frame[p].out = frame[p].balanced_account_uri
            /\ Got(p, "last4") => frame[p].out = ""
            /\ Got(p, "expiry") => frame[p].out = ""
            /\ pc[p] = "raised" =>
                  /\ frame[p].err \in GatewayErrors
                  /\ trace[p][Len(trace[p])][3] = frame[p].err.type

C15_Witness ==
    \E p \in Procs :
        /\ Got(p, "id")
        /\ frame[p].customer # 0
        /\ CardsOf(p) = <<>>
        /\ frame[p].out = AccountUri(1)

\* C19: the month and the year in expiry are the month and the year of one
\* card of the account, also when a card is attached between the two reads
\* of the card collection.
C19_ExpiryOfOneCard ==
    \A p \in Procs :
        (Got(p, "expiry") /\ frame[p].out # "") =>
            \E k \in 1..Len(CardsOf(p)) :
                /\ CardsOf(p)[k].expiration_month = frame[p].month
                /\ CardsOf(p)[k].expiration_year = frame[p].year

\* the row has a bill result and no account reference
Orphaned(row) == row.last_bill_result # NULL /\ row.balanced_account_uri = NULL

\* both callers are back from an associate call for one participant, each
\* given a NULL reference, and every gateway account of the participant's
\* identity key was created by one of the two calls
RacedAssociates(p, q) ==
    /\ p # q
    /\ InCall(p, "associate") /\ InCall(q, "associate")
    /\ pc[p] = "returned" /\ pc[q] = "returned"
    /\ frame[p].participant_id = frame[q].participant_id
    /\ frame[p].balanced_account_uri = NULL
    /\ frame[q].balanced_account_uri = NULL
    /\ Cardinality(Filter(accounts, EmailAddress(frame[p].participant_id)))
          = Count(trace[p], "create") + Count(trace[q], "create")

\* C16: after two concurrent associate calls for the same participant, both
\* given a NULL reference and started with no gateway account, the gateway
\* holds exactly one account for the participant's identity key and the
\* stored reference refers to it
C16_OneAccountAfterRace ==
    \A p, q \in Procs :
        RacedAssociates(p, q) =>
            LET found == Filter(accounts, EmailAddress(frame[p].participant_id)) IN
            /\ Cardinality(found) = 1
            /\ \A i \in found : Row(p).balanced_account_uri = accounts[i].uri

\* caller p is back from an associate call and caller q from a clear call
\* for the same participant, and the row was not orphaned when either began
RacedClear(p, q) ==
    /\ p # q
    /\ InCall(p, "associate") /\ InCall(q, "clear")
    /\ pc[p] = "returned" /\ pc[q] = "returned"
    /\ frame[p].participant_id = frame[q].participant_id
    /\ ~Orphaned(pre[p].row) /\ ~Orphaned(pre[q].row)

\* C17: after one associate call and one clear call for the same participant,
\* interleaved at their gateway calls and store writes, the row never has a
\* non-NULL last_bill_result with a NULL balanced_account_uri
C17_NoResultWithoutAccountAfterRace ==
    \A p, q \in Procs : RacedClear(p, q) => ~Orphaned(Row(p))

(* --------------------------- specification ----------------------------- *)

\* the steps of the calls in flight
Step(p) ==
    \/ AssociateQuery(p)
    \/ AssociateCreate(p)
    \/ AssociateExecCustomer(p)
    \/ AssociateMetaSave(p)
    \/ AssociateFind(p)
    \/ AssociateCardSave(p)
    \/ AssociateExecStanding(p)
    \/ ClearFind(p)
    \/ ClearCards(p)
    \/ ClearLoop(p)
    \/ ClearExec(p)
    \/ Return(p)
    \/ Propagate(p)

\* serialized calls, given any account reference
Next ==
    \/ \E p \in Serial, id \in Participants, uri \in Refs, card \in CardUris :
          AssociateStart(p, id, uri, card)
    \/ \E p \in Serial, id \in Participants, uri \in Refs : ClearStart(p, id, uri)
    \/ \E p \in Serial : Step(p)

Spec == Init /\ [][Next]_vars

\* serialized calls, each given the account reference the table holds
NextStored ==
    \/ \E p \in Serial, id \in Participants, card \in CardUris :
          AssociateStart(p, id, participants[id].balanced_account_uri, card)
    \/ \E p \in Serial, id \in Participants :
          ClearStart(p, id, participants[id].balanced_account_uri)
    \/ \E p \in Serial : Step(p)

SpecStored == Init /\ [][NextStored]_vars

\* the steps of a view
ViewStep(p) ==
    \/ ViewFind(p)
    \/ \E name \in {"id", "last4", "expiry"} : ViewGetItem(p, name)
    \/ ViewLastFour(p)
    \/ ViewMonth(p)
    \/ ViewYear(p)
    \/ ViewReturn(p)
    \/ ViewDrop(p)
    \/ Propagate(p)

\* views, and cards attached by other clients while no view is in progress
NextView ==
    \/ \E p \in Serial, uri \in Refs : ViewStart(p, uri)
    \/ \E p \in Serial : ViewStep(p)
    \/ /\ \A p \in Procs : pc[p] = "idle"
       /\ \E i \in 1..Len(accounts), card \in CardUris, info \in CardInfos :
             GatewayAttach(i, card, info)

SpecView == InitView /\ [][NextView]_vars

\* views, and cards attached by other clients at any time
NextViewRace ==
    \/ \E p \in Serial, uri \in Refs : ViewStart(p, uri)
    \/ \E p \in Serial : ViewStep(p)
    \/ \E i \in 1..Len(accounts), card \in CardUris, info \in CardInfos :
          GatewayAttach(i, card, info)

SpecViewRace == InitView /\ [][NextViewRace]_vars

\* the participant two calls at a time are made for
Contended == {"alice"}

\* two callers that do not wait for each other, each given the account
\* reference the table holds when its call starts; an associate call starts
\* while the gateway holds no card yet (the races around a first card), a
\* clear call at any time
NextConcurrent ==
    \/ /\ CardCount(accounts) = 0
       /\ \E p \in Procs, id \in Contended, card \in CardUris :
             AssociateStart(p, id, participants[id].balanced_account_uri, card)
    \/ \E p \in Procs, id \in Contended :
          ClearStart(p, id, participants[id].balanced_account_uri)
    \/ \E p \in Procs : Step(p)

SpecConcurrent == Init /\ [][NextConcurrent]_vars

====
